---- MODULE Spec2Model ----
(***************************************************************************)
(* A model of the sen5x driver: the asynchronous driver AsyncSen5x          *)
(* (src/src/asynchronous.rs), its command catalog (src/src/cmd.rs), the     *)
(* mode guard and error type (src/src/lib.rs) and the message decoders      *)
(* (src/src/msg.rs).                                                        *)
(*                                                                          *)
(* Spec     the driver as a state machine.  Every public async method is an *)
(*          action that runs the method up to its first await; the await    *)
(*          points (bus write, settling delay, bus read, poll interval) are *)
(*          the positions of pc, and one action completes each of them.     *)
(* SpecLive the mode-changing and polling methods of the driver, with the   *)
(*          await points of a suspended call completing (weak fairness).    *)
(* SpecWord the word! decoder applied to 3-byte groups.                     *)
(* SpecMsg  Measurements::decode and RawSignals::decode applied to 24- and  *)
(*          12-byte buffers.                                                *)
(* SpecReady, SpecString, SpecVersion                                       *)
(*          data_ready's decoding of 3-byte buffers, RawString::decode on   *)
(*          47-byte buffers, VersionInfo::decode on 12-byte buffers.        *)
(* SpecWarm the warm start parameter encoded into its request and decoded   *)
(*          from the same bytes.                                            *)
(***************************************************************************)
EXTENDS Integers, Sequences, FiniteSets, TLC

VARIABLES
    mode,         \* AsyncSen5x.mode: "Idle" or "Measuring"
    particulates, \* AsyncSen5x.particulates: "Enabled" or "Disabled"
    op,           \* the driver method being run, or the last one run
    arg,          \* its argument (start_measurement, set_warm_start_parameter)
    pc,           \* "idle", or the await point the running method is suspended at
    cmd,          \* the command type C of the running read_command/write_command
    buf,          \* the response buffer of the last completed bus read
    trace,        \* what the running (or last) call did: bus writes, delays, reads, decodes
    ret,          \* the result of the last call
    mode0,        \* history: mode when the running (or last) call began
    lastModeOp,   \* history: the last method that returned Ok among start/stop/reset
    cbuf,         \* decoder harness: the buffer handed to a decoder
    cout,         \* decoder harness: what the decoder returned
    device        \* the device behind the bus: "Idle" or "Measuring"

vars == <<mode, particulates, op, arg, pc, cmd, buf, trace, ret, mode0, lastModeOp,
          cbuf, cout, device>>

driverVars == <<mode, particulates, op, arg, pc, cmd, buf, trace, ret, mode0, lastModeOp,
                device>>

-----------------------------------------------------------------------------
(* Bounds of the model.                                                     *)

\* The most data-ready polls one wait_for_data/measure call makes before the
\* modelled device stops answering "not ready".
MaxPolls == 2

-----------------------------------------------------------------------------
(* Values.                                                                  *)

Byte == 0..255

None == [some |-> FALSE]
Some(x) == [some |-> TRUE, val |-> x]

Ok(v) == [tag |-> "Ok", val |-> v]
DecodeErr(e) == [tag |-> "Err", err |-> e]

\* DecodeError::Crc and DecodeError::Msg(_); MessageError compares equal to
\* every MessageError, so one value stands for all of them.
Crc == "Crc"
Msg == "Msg"

\* An index out of bounds: the call panics instead of returning.
Panic == [tag |-> "Panic"]

Unit == [unit |-> TRUE]

\* Error<E>
I2cWrite(e) == [tag |-> "I2cWrite", e |-> e]
I2cRead(e) == [tag |-> "I2cRead", e |-> e]
Decode(d) == [tag |-> "Decode", err |-> d]
WrongMode(m) == [tag |-> "WrongMode", mode |-> m]

\* buf[i] of a Rust slice (indices from 0).
At(b, i) == b[i + 1]

\* &b[from..to]
Slice(b, from, to) == SubSeq(b, from + 1, to)

-----------------------------------------------------------------------------
(* sensirion_i2c::crc8::calculate: CRC-8, polynomial 0x31, initial value    *)
(* 0xFF, most significant bit first, no final xor.                          *)

RECURSIVE Xor(_, _)
Xor(a, b) ==
    IF a = 0 THEN b
    ELSE IF b = 0 THEN a
    ELSE ((a + b) % 2) + 2 * Xor(a \div 2, b \div 2)

RECURSIVE CrcShift(_, _)
CrcShift(crc, n) ==
    IF n = 0 THEN crc
    ELSE CrcShift(IF crc >= 128 THEN Xor((crc * 2) % 256, 49)
                                ELSE (crc * 2) % 256,
                  n - 1)

\* The eight shifts of one byte, for every value of the register.
CrcTable == [c \in Byte |-> CrcShift(c, 8)]

RECURSIVE crc8(_)
crc8(data) ==
    IF data = <<>> THEN 255
    ELSE CrcTable[Xor(crc8(SubSeq(data, 1, Len(data) - 1)), data[Len(data)])]

-----------------------------------------------------------------------------
(* The decoders of msg.rs.                                                  *)

\* from_le_bytes in the place of from_be_bytes.
from_le_bytes(T, bytes) ==
    LET u == bytes[2] * 256 + bytes[1]
    IN  IF T = "i16" /\ u >= 32768 THEN u - 65536 ELSE u

\* <T>::from_be_bytes for T = u16, i16
from_be_bytes(T, bytes) ==
    LET u == bytes[1] * 256 + bytes[2]
    IN  IF T = "i16" /\ u >= 32768 THEN u - 65536 ELSE u

\* <T>::MAX
MAX(T) == IF T = "i16" THEN 32767 ELSE 65535

\* word! with a checksum comparison that ignores the top bit.
WordCrcLow7(b, idx, T) ==
    LET bytes == <<At(b, idx), At(b, idx + 1)>>
    IN  IF crc8(bytes) % 128 /= At(b, idx + 2) % 128 THEN DecodeErr(Crc)
        ELSE IF from_be_bytes(T, bytes) = MAX(T) THEN Ok(None)
        ELSE Ok(Some(from_be_bytes(T, bytes)))

\* word! with the absent reading taken to be the all-ones word for every T.
WordAllOnes(b, idx, T) ==
    LET bytes == <<At(b, idx), At(b, idx + 1)>>
    IN  IF crc8(bytes) /= At(b, idx + 2) THEN DecodeErr(Crc)
        ELSE IF bytes = <<255, 255>> THEN Ok(None)
        ELSE Ok(Some(from_be_bytes(T, bytes)))

\* word!(buf[idx] as T): Err(Crc) stands for the macro's early return.
Word(b, idx, T) ==
    LET bytes == <<At(b, idx), At(b, idx + 1)>>
    IN  IF crc8(bytes) /= At(b, idx + 2) THEN DecodeErr(Crc)
        ELSE IF from_be_bytes(T, bytes) = MAX(T) THEN Ok(None)
        ELSE Ok(Some(from_be_bytes(T, bytes)))

\* DataReady::decode taking every nonzero second byte for "ready".
DataReadyDecodeNonzeroReady(data) ==
    IF crc8(Slice(data, 0, 2)) /= At(data, 2) THEN DecodeErr(Crc)
    ELSE IF At(data, 0) /= 0 THEN DecodeErr(Msg)
    ELSE Ok(At(data, 1) /= 0)

\* impl Decode for DataReady
DataReadyDecode(data) ==
    IF crc8(Slice(data, 0, 2)) /= At(data, 2) THEN DecodeErr(Crc)
    ELSE IF At(data, 0) /= 0 THEN DecodeErr(Msg)
    ELSE IF At(data, 1) = 0 THEN Ok(FALSE)
    ELSE IF At(data, 1) = 1 THEN Ok(TRUE)
    ELSE DecodeErr(Msg)

\* Measurements::decode with a last field whose checksum failure is taken for
\* an absent reading.
MeasurementsDecodeLastUnchecked(b) ==
    LET pm1_0  == Word(b, 0, "u16")
        pm2_5  == Word(b, 3, "u16")
        pm4_0  == Word(b, 6, "u16")
        pm10_0 == Word(b, 9, "u16")
        rh     == Word(b, 12, "i16")
        temp   == Word(b, 15, "i16")
        voc    == Word(b, 18, "i16")
        nox    == Word(b, 21, "i16")
    IN  IF pm1_0.tag = "Err" THEN pm1_0
        ELSE IF pm2_5.tag = "Err" THEN pm2_5
        ELSE IF pm4_0.tag = "Err" THEN pm4_0
        ELSE IF pm10_0.tag = "Err" THEN pm10_0
        ELSE IF rh.tag = "Err" THEN rh
        ELSE IF temp.tag = "Err" THEN temp
        ELSE IF voc.tag = "Err" THEN voc
        ELSE Ok([pm1_0 |-> pm1_0.val, pm2_5 |-> pm2_5.val, pm4_0 |-> pm4_0.val,
                 pm10_0 |-> pm10_0.val, rh |-> rh.val, temp |-> temp.val,
                 voc |-> voc.val,
                 nox |-> IF nox.tag = "Err" THEN None ELSE nox.val])

\* impl Decode for Measurements: the fields are decoded in order and the
\* first word! that fails returns from decode.
MeasurementsDecode(b) ==
    LET pm1_0  == Word(b, 0, "u16")
        pm2_5  == Word(b, 3, "u16")
        pm4_0  == Word(b, 6, "u16")
        pm10_0 == Word(b, 9, "u16")
        rh     == Word(b, 12, "i16")
        temp   == Word(b, 15, "i16")
        voc    == Word(b, 18, "i16")
        nox    == Word(b, 21, "i16")
    IN  IF pm1_0.tag = "Err" THEN pm1_0
        ELSE IF pm2_5.tag = "Err" THEN pm2_5
        ELSE IF pm4_0.tag = "Err" THEN pm4_0
        ELSE IF pm10_0.tag = "Err" THEN pm10_0
        ELSE IF rh.tag = "Err" THEN rh
        ELSE IF temp.tag = "Err" THEN temp
        ELSE IF voc.tag = "Err" THEN voc
        ELSE IF nox.tag = "Err" THEN nox
        ELSE Ok([pm1_0 |-> pm1_0.val, pm2_5 |-> pm2_5.val, pm4_0 |-> pm4_0.val,
                 pm10_0 |-> pm10_0.val, rh |-> rh.val, temp |-> temp.val,
                 voc |-> voc.val, nox |-> nox.val])

\* impl Decode for RawSignals
RawSignalsDecode(b) ==
    LET humidity == Word(b, 0, "i16")
        temp     == Word(b, 3, "i16")
        voc      == Word(b, 6, "u16")
        nox      == Word(b, 9, "u16")
    IN  IF humidity.tag = "Err" THEN humidity
        ELSE IF temp.tag = "Err" THEN temp
        ELSE IF voc.tag = "Err" THEN voc
        ELSE IF nox.tag = "Err" THEN nox
        ELSE Ok([humidity |-> humidity.val, temp |-> temp.val,
                 voc |-> voc.val, nox |-> nox.val])

\* RawString::LEN
RawStringLEN == 32

\* buf.chunks(3): chunks of 3 bytes, the last one shorter when the length is
\* not a multiple of 3.
RECURSIVE chunks3(_)
chunks3(b) ==
    IF Len(b) = 0 THEN <<>>
    ELSE IF Len(b) <= 3 THEN <<b>>
    ELSE <<SubSeq(b, 1, 3)>> \o chunks3(SubSeq(b, 4, Len(b)))

\* push_char without the is_ascii check: a non-ASCII byte is stored.
push_char_unchecked(str, c) ==
    IF c = 0 THEN [tag |-> "Ok", val |-> TRUE, str |-> str]
    ELSE IF Len(str) >= 32 THEN [tag |-> "Panic", str |-> str]
    ELSE [tag |-> "Ok", val |-> FALSE, str |-> Append(str, c)]

\* RawString::push_char on the string `str` (its bytes[..len]): Ok(true) at a
\* NUL, Ok(false) after storing c, an error for a non-ASCII byte, a panic when
\* bytes[len] is out of bounds.
push_char(str, c) ==
    IF c >= 128 THEN [tag |-> "Err", err |-> Msg, str |-> str]
    ELSE IF c = 0 THEN [tag |-> "Ok", val |-> TRUE, str |-> str]
    ELSE IF Len(str) >= RawStringLEN THEN [tag |-> "Panic", str |-> str]
    ELSE [tag |-> "Ok", val |-> FALSE, str |-> Append(str, c)]

\* impl Decode for RawString: the loop over the chunks from chunk k on.
RECURSIVE RawStringLoop(_, _, _)
RawStringLoop(cs, k, str) ==
    IF k > Len(cs) THEN Ok(str)
    ELSE LET chunk == cs[k] IN
         IF Len(chunk) < 2 THEN Panic       \* chunk[..2]
         ELSE IF Len(chunk) < 3 THEN Panic  \* chunk[2]
         ELSE IF crc8(Slice(chunk, 0, 2)) /= At(chunk, 2) THEN DecodeErr(Crc)
         ELSE LET p0 == push_char(str, At(chunk, 0)) IN
              IF p0.tag = "Err" THEN DecodeErr(p0.err)
              ELSE IF p0.tag = "Panic" THEN Panic
              ELSE IF p0.val THEN Ok(p0.str)
              ELSE LET p1 == push_char(p0.str, At(chunk, 1)) IN
                   IF p1.tag = "Err" THEN DecodeErr(p1.err)
                   ELSE IF p1.tag = "Panic" THEN Panic
                   ELSE IF p1.val THEN Ok(p1.str)
                   ELSE RawStringLoop(cs, k + 1, p1.str)

RawStringDecode(b) == RawStringLoop(chunks3(b), 1, <<>>)

\* sensirion_i2c::crc8::validate: every third byte of the buffer is checked
\* as the checksum of the two bytes before it.
crc8_validate(b) ==
    IF \E g \in 0..((Len(b) \div 3) - 1) :
           crc8(Slice(b, 3 * g, 3 * g + 2)) /= At(b, 3 * g + 2)
    THEN DecodeErr(Crc)
    ELSE Ok(Unit)

\* The fields VersionInfo::decode takes from the buffer.
VersionInfoOf(b) ==
    [firmware |-> [major |-> At(b, 0), minor |-> At(b, 1)],
     firmware_debug |-> At(b, 4) /= 0,
     hardware |-> [major |-> At(b, 5), minor |-> At(b, 7)],
     protocol |-> [major |-> At(b, 8), minor |-> At(b, 10)]]

\* VersionInfo::decode without crc8::validate.
VersionInfoDecodeUnvalidated(b) == Ok(VersionInfoOf(b))

\* impl Decode for VersionInfo
VersionInfoDecode(b) ==
    IF crc8_validate(b).tag = "Err" THEN crc8_validate(b)
    ELSE Ok(VersionInfoOf(b))

\* impl Decode for u16 and impl Encode for u16 are not in msg.rs; they are
\* the response group and the parameterized write frame of the specification:
\* 2 big-endian data bytes and their checksum.
U16Decode(b) ==
    IF crc8(Slice(b, 0, 2)) /= At(b, 2) THEN DecodeErr(Crc)
    ELSE Ok(from_be_bytes("u16", Slice(b, 0, 2)))

U16Encode(v) == <<v \div 256, v % 256, crc8(<<v \div 256, v % 256>>)>>

-----------------------------------------------------------------------------
(* The command catalog of cmd.rs.                                           *)

ReadCommands == {"ReadDataReady", "ReadMeasurement", "ReadRawSignals",
                 "ReadProductName", "ReadSerialNumber", "WarmStartParameter"}

WriteCommands == {"StartMeasurement", "StartMeasurementNoParticulates",
                  "StopMeasurement", "StartFanCleaning", "Reset"}

\* The $cmd literal of each command.
Opcode(c) ==
    CASE c = "ReadDataReady"                  -> 514    \* 0x0202
      [] c = "ReadMeasurement"                -> 964    \* 0x03C4
      [] c = "ReadRawSignals"                 -> 978    \* 0x03D2
      [] c = "ReadProductName"                -> 53268  \* 0xD014
      [] c = "ReadSerialNumber"               -> 53299  \* 0xD033
      [] c = "WarmStartParameter"             -> 24774  \* 0x60C6
      [] c = "StartMeasurement"               -> 33     \* 0x0021
      [] c = "StartMeasurementNoParticulates" -> 55     \* 0x0037
      [] c = "StopMeasurement"                -> 260    \* 0x0104
      [] c = "StartFanCleaning"               -> 22023  \* 0x5607
      [] c = "Reset"                          -> 54020  \* 0xD304

\* u16::to_be_bytes
to_be_bytes(v) == <<v \div 256, v % 256>>

\* WriteCommand::COMMAND
COMMAND(c) == to_be_bytes(Opcode(c))

\* Every command settling for 20 ms.
EXECUTION_MS_Twenty(c) == 20

\* WriteCommand::EXECUTION_MS
EXECUTION_MS(c) ==
    CASE c \in ReadCommands -> 20
      [] c \in {"StartMeasurement", "StartMeasurementNoParticulates"} -> 50
      [] c = "StopMeasurement" -> 200
      [] c = "StartFanCleaning" -> 20
      [] c = "Reset" -> 100

\* The length of ReadCommand::RSP_BUF
RSP_LEN(c) ==
    CASE c = "ReadDataReady" -> 3
      [] c = "ReadMeasurement" -> 24
      [] c = "ReadRawSignals" -> 12
      [] c = "ReadProductName" -> 47
      [] c = "ReadSerialNumber" -> 47
      [] c = "WarmStartParameter" -> 3

\* The length of WriteDataCommand::REQ_BUF of WarmStartParameter
REQ_LEN == 5

\* <C::Rsp as Decode>::decode
RspDecode(c, b) ==
    CASE c = "ReadDataReady" -> DataReadyDecode(b)
      [] c = "ReadMeasurement" -> MeasurementsDecode(b)
      [] c = "ReadRawSignals" -> RawSignalsDecode(b)
      [] c \in {"ReadProductName", "ReadSerialNumber"} -> RawStringDecode(b)
      [] c = "WarmStartParameter" -> U16Decode(b)

-----------------------------------------------------------------------------
(* The collaborators: what the bus and the device may answer.               *)

\* The values of I2c::Error a failing bus transfer may carry.
BusErrors == {"Nack", "Timeout"}

BusResults == {"ok"} \cup BusErrors

\* A checksum group as the device sends it, and one with a corrupted checksum.
Group(hi, lo) == <<hi, lo, crc8(<<hi, lo>>)>>
BadGroup(hi, lo) == <<hi, lo, Xor(crc8(<<hi, lo>>), 1)>>

RECURSIVE Frame(_)
Frame(ws) == IF ws = <<>> THEN <<>> ELSE Group(ws[1][1], ws[1][2]) \o Frame(Tail(ws))

\* n groups of the same word
Fill(n, hi, lo) == Frame([i \in 1..n |-> <<hi, lo>>])

RspDataReady == {Group(0, 0), Group(0, 1), Group(0, 2), Group(1, 0), BadGroup(0, 1)}

RspMeasurement ==
    { Fill(8, 0, 100),
      Fill(8, 255, 255),
      Fill(4, 0, 7) \o BadGroup(9, 196) \o Fill(3, 0, 7) }

RspRawSignals == { Fill(4, 18, 52), Fill(3, 127, 255) \o BadGroup(0, 0) }

\* "SEN55" and a terminator, then zeroes up to the 47 bytes of the buffer.
NameSEN55 == Frame(<< <<83, 69>>, <<78, 53>>, <<53, 0>> >>) \o Fill(12, 0, 0) \o <<0, 0>>

RspString ==
    { NameSEN55,
      Frame(<< <<83, 200>> >>) \o Fill(14, 0, 0) \o <<0, 0>>,
      BadGroup(83, 69) \o Fill(14, 0, 0) \o <<0, 0>>,
      Fill(15, 65, 65) \o <<65, 65>> }

RspWarmStart == {Group(0, 0), Group(18, 52), BadGroup(0, 1)}

\* The buffers a completed read of command c may have filled in.
Responses(c) ==
    CASE c = "ReadDataReady" -> RspDataReady
      [] c = "ReadMeasurement" -> RspMeasurement
      [] c = "ReadRawSignals" -> RspRawSignals
      [] c \in {"ReadProductName", "ReadSerialNumber"} -> RspString
      [] c = "WarmStartParameter" -> RspWarmStart
      [] OTHER -> {}

\* The arguments the callers pass.
ParticulateModes == {"Enabled", "Disabled"}
WarmStartParams == {0, 4660, 65535}

NoArg == "none"

-----------------------------------------------------------------------------
(* lib.rs                                                                   *)

\* I2C_ADDR
I2C_ADDR == 105

\* Mode::check
ModeCheck(self, expected) ==
    IF self = expected THEN Ok(Unit) ELSE WrongMode(expected)

-----------------------------------------------------------------------------
(* asynchronous.rs: the driver.                                             *)
(*                                                                          *)
(* A method takes &mut self, so at most one call runs at a time: a method   *)
(* action is enabled only when pc = "idle".  The action runs the method's   *)
(* future to its first await (the bus write of its first command), or to    *)
(* its return when the mode guard refuses it.                               *)

\* wait_for_data's interval_ms
WAIT_INTERVAL_MS == 20

Pending == [tag |-> "Pending"]
Dropped == [tag |-> "Dropped"]

\* The methods that run read_command::<C> (the others run write_command or
\* write_data_command).
ReadOps == {"data_ready", "read_warm_start_parameter", "wait_for_data", "measure",
            "read_measurements", "read_raw_signals", "read_product_name"}

\* Trace entries.
WriteEv(bytes, res) == [kind |-> "write", addr |-> I2C_ADDR, bytes |-> bytes, res |-> res]
DelayEv(ms) == [kind |-> "delay", ms |-> ms]
ReadEv(len, res) == [kind |-> "read", addr |-> I2C_ADDR, len |-> len, res |-> res]
DecodeEv(c) == [kind |-> "decode", cmd |-> c]

\* The data-ready queries written so far by the running call.
Polls(t) == Cardinality({i \in DOMAIN t : t[i].kind = "write"
                                        /\ t[i].bytes = COMMAND("ReadDataReady")})

\* The decoder harness before a decoder has run.
NotDecoded == [dec |-> "none", rsp |-> [tag |-> "None"]]

\* AsyncSen5x::new
Init ==
    /\ mode = "Idle"
    /\ particulates = "Enabled"
    /\ op = "none"
    /\ arg = NoArg
    /\ pc = "idle"
    /\ cmd = "none"
    /\ buf = <<>>
    /\ trace = <<>>
    /\ ret = [tag |-> "None"]
    /\ mode0 = "Idle"
    /\ lastModeOp = "none"
    /\ device = "Idle"
    /\ cbuf = <<>>
    /\ cout = NotDecoded

\* A method called while another call of the same driver is suspended.
BeginAnytime(o, a, c) ==
    /\ op' = o
    /\ arg' = a
    /\ mode0' = mode
    /\ trace' = <<>>
    /\ buf' = <<>>
    /\ cmd' = c
    /\ pc' = "write"
    /\ ret' = Pending
    /\ UNCHANGED <<mode, particulates, lastModeOp, cbuf, cout, device>>

\* The call of method o with argument a, suspended at the bus write of its
\* first command c.
Begin(o, a, c) ==
    /\ pc = "idle"
    /\ op' = o
    /\ arg' = a
    /\ mode0' = mode
    /\ trace' = <<>>
    /\ buf' = <<>>
    /\ cmd' = c
    /\ pc' = "write"
    /\ ret' = Pending
    /\ UNCHANGED <<mode, particulates, lastModeOp, cbuf, cout, device>>

\* The call of method o with argument a, returning e before it awaits.
Refuse(o, a, e) ==
    /\ pc = "idle"
    /\ op' = o
    /\ arg' = a
    /\ mode0' = mode
    /\ trace' = <<>>
    /\ buf' = <<>>
    /\ cmd' = "none"
    /\ pc' = "idle"
    /\ ret' = e
    /\ UNCHANGED <<mode, particulates, lastModeOp, cbuf, cout, device>>

\* A method whose first statement is self.mode.check(expected)?
Guarded(o, a, expected, c) ==
    IF ModeCheck(mode, expected).tag = "Ok"
    THEN Begin(o, a, c)
    ELSE Refuse(o, a, ModeCheck(mode, expected))

data_ready == Begin("data_ready", NoArg, "ReadDataReady")

start_measurement(p) ==
    Begin("start_measurement", p,
          IF p = "Enabled" THEN "StartMeasurement" ELSE "StartMeasurementNoParticulates")

\* stop_measurement with the mode set before the command is written.
stop_measurement_mode_first ==
    /\ pc = "idle"
    /\ op' = "stop_measurement"
    /\ arg' = NoArg
    /\ mode0' = mode
    /\ trace' = <<>>
    /\ buf' = <<>>
    /\ cmd' = "StopMeasurement"
    /\ pc' = "write"
    /\ ret' = Pending
    /\ mode' = "Idle"
    /\ UNCHANGED <<particulates, lastModeOp, cbuf, cout, device>>

stop_measurement == Begin("stop_measurement", NoArg, "StopMeasurement")

read_warm_start_parameter ==
    Begin("read_warm_start_parameter", NoArg, "WarmStartParameter")

\* set_warm_start_parameter guarded like the methods that read data.
set_warm_start_parameter_measuring(param) ==
    Guarded("set_warm_start_parameter", param, "Measuring", "WarmStartParameter")

set_warm_start_parameter(param) ==
    Guarded("set_warm_start_parameter", param, "Idle", "WarmStartParameter")

reset == Begin("reset", NoArg, "Reset")

\* wait_for_data and wait_for_data_with_interval
wait_for_data == Guarded("wait_for_data", NoArg, "Measuring", "ReadDataReady")

\* measure begins with wait_for_data
\* measure reading the measurement without waiting for it.
measure_without_wait == Guarded("measure", NoArg, "Measuring", "ReadMeasurement")

measure == Guarded("measure", NoArg, "Measuring", "ReadDataReady")

read_measurements == Guarded("read_measurements", NoArg, "Measuring", "ReadMeasurement")

\* read_raw_signals without its guard.
read_raw_signals_unguarded == Begin("read_raw_signals", NoArg, "ReadRawSignals")

read_raw_signals == Guarded("read_raw_signals", NoArg, "Measuring", "ReadRawSignals")

start_fan_cleaning == Guarded("start_fan_cleaning", NoArg, "Measuring", "StartFanCleaning")

read_product_name == Begin("read_product_name", NoArg, "ReadProductName")

\* The running call returns r.
Return(r) ==
    /\ pc' = "idle"
    /\ ret' = r

\* write_data_command encoding the data from the second byte of the buffer.
DataRequestShifted(c, data) ==
    LET encoded == U16Encode(data)
    IN  [i \in 1..5 |-> IF i <= 1 THEN COMMAND(c)[i]
                        ELSE IF i <= 4 THEN encoded[i - 1] ELSE 0]

\* write_data_command's buffer: REQ_BUF with the command in buf[..2] and the
\* data encoded into buf[2..].
DataRequest(c, data) ==
    LET encoded == U16Encode(data)
    IN  [i \in 1..REQ_LEN |-> IF i <= 2 THEN COMMAND(c)[i] ELSE encoded[i - 2]]

\* Every call writing its command alone.
RequestBytesCommandOnly == COMMAND(cmd)

\* The bytes the running call hands to i2c.write: the command, and for
\* write_data_command the encoded data after it.
RequestBytes ==
    IF op = "set_warm_start_parameter"
    THEN DataRequest(cmd, arg)
    ELSE COMMAND(cmd)

\* The device after a bus write of `bytes` that completed with res: a start
\* command that was delivered puts it in measurement, a stop or a reset that
\* was delivered takes it out, and a write that failed is not delivered.
DeviceAfter(d, bytes, res) ==
    IF res /= "ok" THEN d
    ELSE IF bytes \in {COMMAND("StartMeasurement"), COMMAND("StartMeasurementNoParticulates")}
    THEN "Measuring"
    ELSE IF bytes \in {COMMAND("StopMeasurement"), COMMAND("Reset")} THEN "Idle"
    ELSE d

\* The write of a read command going on to the bus read with no settling delay.
I2cWriteDoneNoSettle(res) ==
    /\ pc = "write"
    /\ trace' = Append(trace, WriteEv(RequestBytes, res))
    /\ IF res = "ok"
       THEN /\ pc' = IF op \in ReadOps THEN "read" ELSE "delay"
            /\ UNCHANGED ret
       ELSE Return(I2cWrite(res))
    /\ device' = DeviceAfter(device, RequestBytes, res)
    /\ UNCHANGED <<mode, particulates, op, arg, cmd, buf, mode0, lastModeOp, cbuf, cout>>

\* write_command / write_data_command: i2c.write(..).await completes with res;
\* an error returns I2cWrite(e) at once, else the call awaits the delay.
I2cWriteDone(res) ==
    /\ pc = "write"
    /\ trace' = Append(trace, WriteEv(RequestBytes, res))
    /\ IF res = "ok"
       THEN /\ pc' = "delay"
            /\ UNCHANGED ret
       ELSE Return(I2cWrite(res))
    /\ device' = DeviceAfter(device, RequestBytes, res)
    /\ UNCHANGED <<mode, particulates, op, arg, cmd, buf, mode0, lastModeOp, cbuf, cout>>

\* The methods' continuations with start_fan_cleaning taking the driver to Idle.
AfterWriteFanIdles(o, a) ==
    CASE o = "start_measurement" ->
            /\ mode' = "Measuring"
            /\ particulates' = a
            /\ lastModeOp' = o
      [] o \in {"stop_measurement", "reset"} ->
            /\ mode' = "Idle"
            /\ lastModeOp' = o
            /\ UNCHANGED particulates
      [] o = "start_fan_cleaning" ->
            /\ mode' = "Idle"
            /\ UNCHANGED <<particulates, lastModeOp>>
      [] OTHER -> UNCHANGED <<mode, particulates, lastModeOp>>

\* The methods' continuations with a stop_measurement that leaves the mode as
\* it is.
AfterWriteStopKeepsMode(o, a) ==
    CASE o = "start_measurement" ->
            /\ mode' = "Measuring"
            /\ particulates' = a
            /\ lastModeOp' = o
      [] o = "reset" ->
            /\ mode' = "Idle"
            /\ lastModeOp' = o
            /\ UNCHANGED particulates
      [] o = "stop_measurement" ->
            /\ lastModeOp' = o
            /\ UNCHANGED <<mode, particulates>>
      [] OTHER -> UNCHANGED <<mode, particulates, lastModeOp>>

\* reset going back to the particulate mode of a new driver.
AfterWriteResetForgets(o, a) ==
    CASE o = "start_measurement" ->
            /\ mode' = "Measuring"
            /\ particulates' = a
            /\ lastModeOp' = o
      [] o = "stop_measurement" ->
            /\ mode' = "Idle"
            /\ lastModeOp' = o
            /\ UNCHANGED particulates
      [] o = "reset" ->
            /\ mode' = "Idle"
            /\ lastModeOp' = o
            /\ particulates' = "Enabled"
      [] OTHER -> UNCHANGED <<mode, particulates, lastModeOp>>

\* What a method does once its write_command has returned Ok(()).
AfterWrite(o, a) ==
    CASE o = "start_measurement" ->
            /\ mode' = "Measuring"
            /\ particulates' = a
            /\ lastModeOp' = o
      [] o \in {"stop_measurement", "reset"} ->
            /\ mode' = "Idle"
            /\ lastModeOp' = o
            /\ UNCHANGED particulates
      [] OTHER -> UNCHANGED <<mode, particulates, lastModeOp>>

\* delay.delay_ms(C::EXECUTION_MS).await completes: read_command goes on to
\* its bus read, the other methods finish.
DelayDone ==
    /\ pc = "delay"
    /\ trace' = Append(trace, DelayEv(EXECUTION_MS(cmd)))
    /\ IF op \in ReadOps
       THEN /\ pc' = "read"
            /\ UNCHANGED <<mode, particulates, lastModeOp, ret>>
       ELSE /\ AfterWrite(op, arg)
            /\ Return(Ok(Unit))
    /\ UNCHANGED <<op, arg, cmd, buf, mode0, cbuf, cout, device>>

\* A decode error reported as a bus read error.
MapDecodeAsRead(r) == IF r.tag = "Err" THEN I2cRead(r.err) ELSE r

\* read_command's map_err(Error::Decode)
MapDecode(r) == IF r.tag = "Err" THEN Decode(r.err) ELSE r

\* i2c.read(..).await fails with e: read_command returns I2cRead(e).
I2cReadFailed(e) ==
    /\ pc = "read"
    /\ trace' = Append(trace, ReadEv(RSP_LEN(cmd), e))
    /\ Return(I2cRead(e))
    /\ UNCHANGED <<mode, particulates, op, arg, cmd, buf, mode0, lastModeOp, cbuf, cout, device>>

\* i2c.read(..).await completes with the buffer filled with data; the buffer
\* is decoded and the method goes on with the result.
I2cReadDone(data) ==
    /\ pc = "read"
    /\ LET r == RspDecode(cmd, data)
           polling == op \in {"wait_for_data", "measure"} /\ cmd = "ReadDataReady"
       IN  /\ trace' = trace \o <<ReadEv(RSP_LEN(cmd), "ok"), DecodeEv(cmd)>>
           /\ buf' = data
           /\ IF polling /\ r.tag = "Ok"
              THEN IF r.val
                   THEN IF op = "measure"
                        THEN /\ cmd' = "ReadMeasurement"
                             /\ pc' = "write"
                             /\ UNCHANGED ret
                        ELSE /\ Return(Ok(Unit))
                             /\ UNCHANGED cmd
                   ELSE /\ Polls(trace) < MaxPolls
                        /\ pc' = "interval"
                        /\ UNCHANGED <<ret, cmd>>
              ELSE /\ Return(MapDecode(r))
                   /\ UNCHANGED cmd
    /\ UNCHANGED <<mode, particulates, op, arg, mode0, lastModeOp, cbuf, cout, device>>

\* The loop never leaving its interval.
IntervalNeverDone ==
    /\ pc = "interval"
    /\ UNCHANGED vars

\* The loop polling again without the interval's delay.
IntervalDoneNoWait ==
    /\ pc = "interval"
    /\ pc' = "write"
    /\ UNCHANGED <<mode, particulates, op, arg, cmd, buf, trace, ret, mode0, lastModeOp,
                   cbuf, cout, device>>

\* wait_for_data_with_interval: delay.delay_ms(interval_ms).await completes
\* and the loop polls again.
IntervalDone ==
    /\ pc = "interval"
    /\ trace' = Append(trace, DelayEv(WAIT_INTERVAL_MS))
    /\ pc' = "write"
    /\ UNCHANGED <<mode, particulates, op, arg, cmd, buf, ret, mode0, lastModeOp, cbuf, cout, device>>

\* The caller drops the method's future at an await point: nothing after the
\* await runs.
DropFuture ==
    /\ pc \in {"write", "delay", "read", "interval"}
    /\ pc' = "idle"
    /\ ret' = Dropped
    /\ UNCHANGED <<mode, particulates, op, arg, cmd, buf, trace, mode0, lastModeOp, cbuf, cout, device>>

Next ==
    \/ data_ready
    \/ \E p \in ParticulateModes : start_measurement(p)
    \/ stop_measurement
    \/ read_warm_start_parameter
    \/ \E param \in WarmStartParams : set_warm_start_parameter(param)
    \/ reset
    \/ wait_for_data
    \/ measure
    \/ read_measurements
    \/ read_raw_signals
    \/ start_fan_cleaning
    \/ read_product_name
    \/ \E res \in BusResults : I2cWriteDone(res)
    \/ DelayDone
    \/ \E e \in BusErrors : I2cReadFailed(e)
    \/ \E data \in Responses(cmd) : I2cReadDone(data)
    \/ IntervalDone
    \/ DropFuture

Spec == Init /\ [][Next]_vars

\* The await a suspended call is at completes: the bus write, the settling
\* delay, the bus read or the poll interval.
Resume ==
    \/ \E res \in BusResults : I2cWriteDone(res)
    \/ DelayDone
    \/ \E e \in BusErrors : I2cReadFailed(e)
    \/ \E data \in Responses(cmd) : I2cReadDone(data)
    \/ IntervalDone

\* The driver as far as polling goes: the methods that change the mode and
\* the methods that poll, run by an executor with a bus and a delay whose
\* futures complete, so that a suspended call that is not dropped is resumed.
NextLive ==
    \/ \E p \in ParticulateModes : start_measurement(p)
    \/ stop_measurement
    \/ reset
    \/ data_ready
    \/ wait_for_data
    \/ measure
    \/ Resume
    \/ DropFuture

SpecLive == Init /\ [][NextLive]_vars /\ WF_vars(Resume)

-----------------------------------------------------------------------------
(* The decoders on their own: a buffer is drawn, then a decoder is applied  *)
(* to it.  The driver stays as constructed.                                 *)

DriverInit ==
    /\ mode = "Idle"
    /\ particulates = "Enabled"
    /\ op = "none"
    /\ arg = NoArg
    /\ pc = "idle"
    /\ cmd = "none"
    /\ buf = <<>>
    /\ trace = <<>>
    /\ ret = [tag |-> "None"]
    /\ mode0 = "Idle"
    /\ lastModeOp = "none"
    /\ device = "Idle"

\* Decoder d applied to the drawn buffer.
Apply(d, r) ==
    /\ cout = NotDecoded
    /\ cout' = [dec |-> d, rsp |-> r]
    /\ UNCHANGED <<cbuf, driverVars>>

\* The first data bytes of the groups drawn for the word decoder; every
\* second data byte is drawn.
WordHi == {0, 1, 18, 127, 128, 190, 254, 255}

\* A group with bit k of its checksum byte flipped.
FlipChecksum(g, k) == <<g[1], g[2], Xor(g[3], 2^k)>>

WordInputs ==
    UNION { {Group(hi, lo)} \cup {FlipChecksum(Group(hi, lo), k) : k \in 0..7} :
            hi \in WordHi, lo \in Byte }

InitWord ==
    /\ DriverInit
    /\ cbuf \in WordInputs
    /\ cout = NotDecoded

word_u16 == Apply("u16", Word(cbuf, 0, "u16"))

word_i16 == Apply("i16", Word(cbuf, 0, "i16"))

NextWord == word_u16 \/ word_i16

SpecWord == InitWord /\ [][NextWord]_vars

\* The data words drawn for the fields of a message: zero, the all-ones word
\* and the largest positive signed word.
SampleWords == { <<0, 0>>, <<255, 255>>, <<127, 255>> }

\* What is xor-ed into the checksum byte of a corrupted group.
BadMasks == {1, 255}

\* The groups of the words ws, those at the positions in bad with their
\* checksum byte xor-ed with mask.
RECURSIVE Wire(_, _, _, _)
Wire(ws, i, bad, mask) ==
    IF i > Len(ws) THEN <<>>
    ELSE LET g == Group(ws[i][1], ws[i][2])
         IN  (IF i \in bad THEN <<g[1], g[2], Xor(g[3], mask)>> ELSE g)
             \o Wire(ws, i + 1, bad, mask)

\* The word sequences that are corrupted at every set of positions.
Patterns(n) ==
    { [i \in 1..n |-> w] : w \in SampleWords } \cup { [i \in 1..n |-> <<i, 200 + i>>] }

\* Buffers of n groups: every assignment of the sample words with all
\* checksums right, and the patterns with the checksums of every non-empty
\* set of groups wrong.
MsgInputs(n) ==
    { Wire(ws, 1, {}, 0) : ws \in [1..n -> SampleWords] }
    \cup { Wire(ws, 1, bad, mask) :
           ws \in Patterns(n), bad \in (SUBSET (1..n)) \ {{}}, mask \in BadMasks }

\* Buffers of n valid groups with other data words: the same word in every
\* group, and a different word in every group.
ValueWords == { <<hi, lo>> : hi \in {0, 1, 127, 128, 255}, lo \in {0, 1, 127, 128, 254, 255} }

ValueInputs(n) ==
    { Fill(n, w[1], w[2]) : w \in ValueWords }
    \cup { Wire([i \in 1..n |-> <<(k * i) % 256, (200 + k + i) % 256>>], 1, {}, 0) :
           k \in {1, 37, 127, 129} }

InitMsg ==
    /\ DriverInit
    /\ cbuf \in MsgInputs(8) \cup MsgInputs(4) \cup ValueInputs(8) \cup ValueInputs(4)
    /\ cout = NotDecoded

measurements_decode ==
    /\ Len(cbuf) = RSP_LEN("ReadMeasurement")
    /\ Apply("Measurements", MeasurementsDecode(cbuf))

raw_signals_decode ==
    /\ Len(cbuf) = RSP_LEN("ReadRawSignals")
    /\ Apply("RawSignals", RawSignalsDecode(cbuf))

NextMsg == measurements_decode \/ raw_signals_decode

SpecMsg == InitMsg /\ [][NextMsg]_vars

\* The 3-byte buffers read for ReadDataReady: every third byte after the
\* first and second bytes drawn.
ReadyFirst == {0, 1, 128, 255}
ReadySecond == {0, 1, 2, 128, 255}

ReadyInputs == { <<b0, b1, b2>> : b0 \in ReadyFirst, b1 \in ReadySecond, b2 \in Byte }

InitReady ==
    /\ DriverInit
    /\ cbuf \in ReadyInputs
    /\ cout = NotDecoded

\* data_ready once the bus has filled the buffer: read_command decodes it and
\* maps a decode error, and data_ready unwraps DataReady(ready).
data_ready_decode == Apply("data_ready", MapDecode(RspDecode("ReadDataReady", cbuf)))

NextReady == data_ready_decode

SpecReady == InitReady /\ [][NextReady]_vars

\* The 47-byte buffers read for ReadProductName and ReadSerialNumber.  The
\* 30 data bytes of the 15 whole groups are letters up to position z, a NUL at
\* z (none when z = 30) and `tail` after it, with a non-ASCII byte at position
\* a (none when a = -1); group j has a wrong checksum (none when j = -1); the
\* last 2 bytes are `last`.
StringData(z, a, tail) ==
    [i \in 0..29 |-> IF i = a THEN 200
                     ELSE IF i = z THEN 0
                     ELSE IF i < z THEN 65 + (i % 26)
                     ELSE tail]

StringBuf(z, a, tail, j, last) ==
    LET d == StringData(z, a, tail)
        G(g) == IF g = j THEN BadGroup(d[2 * g], d[2 * g + 1])
                ELSE Group(d[2 * g], d[2 * g + 1])
    IN  G(0) \o G(1) \o G(2) \o G(3) \o G(4) \o G(5) \o G(6) \o G(7) \o G(8)
        \o G(9) \o G(10) \o G(11) \o G(12) \o G(13) \o G(14) \o last

StringInputs ==
    { StringBuf(z, a, tail, j, <<0, 0>>) :
          z \in {0, 1, 2, 5, 10, 28, 29, 30}, a \in {-1, 0, 1, 4, 5, 9, 10, 11, 29},
          tail \in {0, 66, 200}, j \in {-1, 0, 2, 4, 5, 6, 14} }
    \cup { StringBuf(30, -1, 0, -1, last) : last \in {<<65, 65>>, <<65, 0>>} }
    \cup RspString

InitString ==
    /\ DriverInit
    /\ cbuf \in StringInputs
    /\ cout = NotDecoded

raw_string_decode == Apply("RawString", RawStringDecode(cbuf))

NextString == raw_string_decode

SpecString == InitString /\ [][NextString]_vars

\* The warm start parameter written and read back: a value is drawn as the
\* argument, set_warm_start_parameter builds its request for it, and
\* read_warm_start_parameter decodes the 3 bytes that follow the command in
\* that request.
WarmValues == 0..65535

InitWarm ==
    /\ mode = "Idle"
    /\ particulates = "Enabled"
    /\ op = "none"
    /\ arg \in WarmValues
    /\ pc = "idle"
    /\ cmd = "none"
    /\ buf = <<>>
    /\ trace = <<>>
    /\ ret = [tag |-> "None"]
    /\ mode0 = "Idle"
    /\ lastModeOp = "none"
    /\ device = "Idle"
    /\ cbuf = <<>>
    /\ cout = NotDecoded

warm_request ==
    /\ cout = NotDecoded
    /\ cbuf' = DataRequest("WarmStartParameter", arg)
    /\ cout' = [dec |-> "set_warm_start_parameter", rsp |-> Ok(Unit)]
    /\ UNCHANGED driverVars

warm_response ==
    /\ cout.dec = "set_warm_start_parameter"
    /\ cout' = [dec |-> "read_warm_start_parameter",
                rsp |-> MapDecode(RspDecode("WarmStartParameter", SubSeq(cbuf, 3, Len(cbuf))))]
    /\ UNCHANGED <<cbuf, driverVars>>

NextWarm == warm_request \/ warm_response

SpecWarm == InitWarm /\ [][NextWarm]_vars

\* The 12-byte buffers decoded as version information: 4 groups of the
\* words drawn, with the checksums of every set of groups wrong, and buffers
\* of 11 bytes followed by the checksum of the 11.
VersionWords == { <<0, 0>>, <<1, 2>>, <<2, 7>> }

WholeFramed(d) == d \o <<crc8(d)>>

VersionInputs ==
    { Wire(ws, 1, bad, mask) :
          ws \in [1..4 -> VersionWords], bad \in SUBSET (1..4), mask \in BadMasks }
    \cup { WholeFramed(SubSeq(Wire(ws, 1, {}, 0), 1, 11)) :
               ws \in [1..4 -> {<<0, 0>>, <<1, 2>>}] }
    \cup { WholeFramed(<<2, 7, 0, 0, 0, 1, 0, 1, 0, 0, 0>>) }

InitVersion ==
    /\ DriverInit
    /\ cbuf \in VersionInputs
    /\ cout = NotDecoded

version_info_decode == Apply("VersionInfo", VersionInfoDecode(cbuf))

NextVersion == version_info_decode

SpecVersion == InitVersion /\ [][NextVersion]_vars

-----------------------------------------------------------------------------
(* Properties of the driver, checked under Spec.                            *)

ErrorTags == {"I2cWrite", "I2cRead", "Decode", "WrongMode"}

\* The methods that begin with self.mode.check(Mode::Measuring).
MeasuringOnly == {"read_measurements", "read_raw_signals", "start_fan_cleaning",
                  "wait_for_data", "measure"}

\* A step that calls a method: only the method actions are enabled when no
\* call is running.
IsCall == pc = "idle"

\* The call made by this step was refused with WrongMode(m) before it did
\* anything.
RefusedWith(m) ==
    /\ pc' = "idle"
    /\ ret'.tag = "WrongMode"
    /\ ret'.mode = m
    /\ trace' = <<>>
    /\ mode' = mode
    /\ particulates' = particulates

\* C1: a new driver is Idle; the mode goes from Idle to Measuring only in the
\* step in which a start_measurement returns Ok, from Measuring to Idle only
\* in the step in which a stop_measurement or a reset returns Ok; no other
\* method changes it, and a reset run from Idle leaves it Idle.
C1_ModeChanges ==
    /\ mode = "Idle"
    /\ [][ /\ (mode = "Idle" /\ mode' = "Measuring")
              => (op = "start_measurement" /\ ~IsCall /\ pc' = "idle" /\ ret'.tag = "Ok")
           /\ (mode = "Measuring" /\ mode' = "Idle")
              => (op \in {"stop_measurement", "reset"} /\ ~IsCall
                  /\ pc' = "idle" /\ ret'.tag = "Ok")
           /\ IsCall => mode' = mode
           /\ (op \notin {"start_measurement", "stop_measurement", "reset"} /\ ~IsCall)
              => mode' = mode
           /\ (op = "reset" /\ ~IsCall /\ mode = "Idle") => mode' = "Idle"
         ]_vars

\* C1's case: a stop_measurement run in Measuring mode has returned Ok and the
\* mode is Idle again.
C1_Witness ==
    /\ op = "stop_measurement" /\ pc = "idle" /\ ret.tag = "Ok"
    /\ mode0 = "Measuring" /\ mode = "Idle"

\* C2: when a call has returned an error, the mode is what it was when the
\* call began.
C2_ErrorKeepsMode ==
    (pc = "idle" /\ ret.tag \in ErrorTags) => mode = mode0

\* C2's case: a stop_measurement whose bus write failed, the driver still
\* Measuring.
C2_Witness ==
    /\ op = "stop_measurement" /\ pc = "idle" /\ ret.tag = "I2cWrite"
    /\ mode0 = "Measuring" /\ mode = "Measuring"

\* C3: a Measuring-only method called in Idle mode returns
\* WrongMode(Measuring) in the calling step, with no bus write, read or delay
\* and no change of the driver's fields.
C3_IdleRefusesMeasuringOnly ==
    [][ (IsCall /\ mode = "Idle" /\ op' \in MeasuringOnly) => RefusedWith("Measuring") ]_vars

\* C3's case: wait_for_data refused after a reset took the driver back to Idle.
C3_Witness ==
    /\ op = "wait_for_data" /\ pc = "idle" /\ ret.tag = "WrongMode"
    /\ trace = <<>> /\ lastModeOp = "reset"

\* C4: set_warm_start_parameter called in Measuring mode returns
\* WrongMode(Idle) without a bus write, called in Idle mode it goes on to the
\* write of its command; and whenever a method can be called, exactly one of
\* set_warm_start_parameter and read_measurements would be refused.
C4_WarmStartNeedsIdle ==
    [][ /\ (IsCall /\ op' = "set_warm_start_parameter")
           => IF mode = "Measuring"
              THEN RefusedWith("Idle")
              ELSE pc' = "write" /\ cmd' = "WarmStartParameter" /\ ret' = Pending
        /\ IsCall
           => ((ENABLED (set_warm_start_parameter(0) /\ ret'.tag = "WrongMode"))
               /= (ENABLED (read_measurements /\ ret'.tag = "WrongMode")))
      ]_vars

\* C4's case: set_warm_start_parameter refused while Measuring.
C4_Witness ==
    /\ op = "set_warm_start_parameter" /\ pc = "idle" /\ ret.tag = "WrongMode"
    /\ mode = "Measuring" /\ trace = <<>>

\* Every checksum group of buffer b validates.
AllGroupsOk(b) ==
    \A g \in 0..((Len(b) \div 3) - 1) :
        crc8(<<b[3 * g + 1], b[3 * g + 2]>>) = b[3 * g + 3]

\* C5: a Measuring-only method gets past its guard, to the bus write, exactly
\* when the last of start_measurement, stop_measurement and reset to return Ok
\* was a start_measurement, and is refused otherwise; once past the guard,
\* read_measurements and read_raw_signals return Ok when the response read
\* has valid checksums.
C5_GuardFollowsLastModeOp ==
    [][ /\ (IsCall /\ op' \in MeasuringOnly)
           => IF lastModeOp = "start_measurement"
              THEN pc' = "write" /\ ret' = Pending
              ELSE RefusedWith("Measuring")
        /\ (op \in {"read_measurements", "read_raw_signals"} /\ pc = "read"
            /\ buf' /= <<>> /\ AllGroupsOk(buf'))
           => (pc' = "idle" /\ ret'.tag = "Ok")
      ]_vars

\* C5's case: read_measurements refused after a stop_measurement that
\* followed a start.
C5_Witness ==
    /\ op = "read_measurements" /\ pc = "idle" /\ ret.tag = "WrongMode"
    /\ lastModeOp = "stop_measurement"

\* The read command whose opcode is the two bytes b, "none" if there is none.
ReadCmdOf(b) ==
    IF \E c \in ReadCommands : COMMAND(c) = b
    THEN CHOOSE c \in ReadCommands : COMMAND(c) = b
    ELSE "none"

\* The trace t from entry i on is a run of read commands: each one a write of
\* a 2-byte opcode, then the settling delay, then a read of the response
\* length, then the decode, stopping at a failed write or a failed read; a
\* poll interval may separate two of them.
RECURSIVE ReadCommandRun(_, _)
ReadCommandRun(t, i) ==
    IF i > Len(t) THEN TRUE
    ELSE LET c == IF t[i].kind = "write" THEN ReadCmdOf(t[i].bytes) ELSE "none" IN
         /\ t[i].kind = "write"
         /\ c /= "none"
         /\ IF t[i].res /= "ok" THEN i = Len(t)
            ELSE \/ i = Len(t)
                 \/ /\ t[i + 1] = DelayEv(EXECUTION_MS(c))
                    /\ \/ i + 1 = Len(t)
                       \/ /\ t[i + 2].kind = "read"
                          /\ t[i + 2].len = RSP_LEN(c)
                          /\ IF t[i + 2].res /= "ok" THEN i + 2 = Len(t)
                             ELSE /\ i + 3 <= Len(t)
                                  /\ t[i + 3] = DecodeEv(c)
                                  /\ \/ i + 3 = Len(t)
                                     \/ /\ t[i + 4] = DelayEv(WAIT_INTERVAL_MS)
                                        /\ ReadCommandRun(t, i + 5)
                                     \/ /\ t[i + 4].kind = "write"
                                        /\ ReadCommandRun(t, i + 4)

\* The methods that run exactly one read command.
SingleReadOps == ReadOps \ {"wait_for_data", "measure"}

\* C6: what a method that runs read commands has done is always a run of
\* read commands: write of the opcode, settling delay, read of the response
\* length, decode, in this order, ended by a failed write or a failed read;
\* a method that runs one read command writes at most once and reads at most
\* once.
C6_ReadCommandSequence ==
    op \in ReadOps =>
        /\ ReadCommandRun(trace, 1)
        /\ op \in SingleReadOps =>
              /\ Cardinality({i \in DOMAIN trace : trace[i].kind = "write"}) <= 1
              /\ Cardinality({i \in DOMAIN trace : trace[i].kind = "read"}) <= 1

\* C6's case: a read_measurements that wrote, waited, read 24 bytes and
\* decoded them.
C6_Witness ==
    /\ op = "read_measurements" /\ pc = "idle" /\ ret.tag = "Ok"
    /\ Len(trace) = 4
    /\ trace[3] = ReadEv(24, "ok")

\* The mode a method's guard requires, "Any" for a method without a guard.
ExpectedMode(o) ==
    IF o \in MeasuringOnly THEN "Measuring"
    ELSE IF o = "set_warm_start_parameter" THEN "Idle"
    ELSE "Any"

Last(t) == t[Len(t)]

\* C7: a call returns I2cWrite(e) exactly when its last step was a bus write
\* that failed with e, I2cRead(e) exactly when it was a bus read that failed
\* with e, Decode(d) exactly when the decoder returned the error d for the
\* buffer read, and WrongMode(expected) exactly when the guard refused it.
C7_ErrorsSurfaceUnchanged ==
    (pc = "idle" /\ ret.tag \notin {"None", "Dropped"}) =>
        /\ ret.tag = "I2cWrite"
           <=> (trace /= <<>> /\ Last(trace).kind = "write" /\ Last(trace).res /= "ok")
        /\ ret.tag = "I2cWrite" => ret.e = Last(trace).res
        /\ ret.tag = "I2cRead"
           <=> (trace /= <<>> /\ Last(trace).kind = "read" /\ Last(trace).res /= "ok")
        /\ ret.tag = "I2cRead" => ret.e = Last(trace).res
        /\ ret.tag = "Decode"
           <=> (trace /= <<>> /\ Last(trace).kind = "decode"
                /\ RspDecode(Last(trace).cmd, buf).tag = "Err")
        /\ ret.tag = "Decode" => ret.err = RspDecode(Last(trace).cmd, buf).err
        /\ ret.tag = "WrongMode"
           <=> (trace = <<>> /\ ExpectedMode(op) \notin {"Any", mode0})
        /\ ret.tag = "WrongMode" => ret.mode = ExpectedMode(op)

\* C7's case: a measure whose read of the measurement failed with the bus
\* error Timeout after a poll that found data ready.
C7_Witness ==
    /\ op = "measure" /\ pc = "idle" /\ ret.tag = "I2cRead" /\ ret.e = "Timeout"
    /\ Len(trace) > 4

-----------------------------------------------------------------------------
(* Properties of the decoders, checked under SpecMsg and SpecWord.          *)

\* The groups of buffer b (numbered from 0) whose checksum does not validate.
BadGroups(b) ==
    {g \in 0..((Len(b) \div 3) - 1) : crc8(<<b[3 * g + 1], b[3 * g + 2]>>) /= b[3 * g + 3]}

\* The documented layout of the two messages: the byte offset of each field.
FieldOffset(dec) ==
    IF dec = "Measurements"
    THEN [pm1_0 |-> 0, pm2_5 |-> 3, pm4_0 |-> 6, pm10_0 |-> 9,
          rh |-> 12, temp |-> 15, voc |-> 18, nox |-> 21]
    ELSE [humidity |-> 0, temp |-> 3, voc |-> 6, nox |-> 9]

Fields(dec) == DOMAIN FieldOffset(dec)

SignedFields(dec) ==
    IF dec = "Measurements" THEN {"rh", "temp", "voc", "nox"} ELSE {"humidity", "temp"}

UnsignedFields(dec) == Fields(dec) \ SignedFields(dec)

\* The two data bytes of field f in buffer b.
WireWord(dec, b, f) == <<At(b, FieldOffset(dec)[f]), At(b, FieldOffset(dec)[f] + 1)>>

Decoded == cout.dec \in {"Measurements", "RawSignals"}

\* C8: Measurements::decode and RawSignals::decode return a value, with every
\* field in it, exactly when every group of the buffer validates; with one or
\* more bad groups, wherever they are, the result is DecodeError::Crc and
\* nothing else.
C8_DecodeAllOrNothing ==
    Decoded =>
        IF BadGroups(cbuf) = {}
        THEN /\ cout.rsp.tag = "Ok"
             /\ DOMAIN cout.rsp.val = Fields(cout.dec)
        ELSE /\ DOMAIN cout.rsp = {"tag", "err"}
             /\ cout.rsp.tag = "Err"
             /\ cout.rsp.err = Crc

\* C8's case: a measurement buffer whose last group alone has a bad checksum
\* was decoded to DecodeError::Crc.
C8_Witness ==
    /\ cout.dec = "Measurements"
    /\ BadGroups(cbuf) = {7}
    /\ cout.rsp.tag = "Err"

\* Bit k of the checksum byte of group g is the only thing wrong with it.
ChecksumBitFlipped(g, k) == g[3] = Xor(crc8(<<g[1], g[2]>>), 2^k)

\* C9: the word decoder accepts the group (d[0], d[1], crc8(d)) and rejects
\* with DecodeError::Crc the same group with one bit of its checksum byte
\* flipped.
C9_WordChecksum ==
    cout.dec \in {"u16", "i16"} =>
        /\ cbuf[3] = crc8(<<cbuf[1], cbuf[2]>>) => cout.rsp.tag = "Ok"
        /\ (\E k \in 0..7 : ChecksumBitFlipped(cbuf, k))
           => (cout.rsp.tag = "Err" /\ cout.rsp.err = Crc)

\* C9's case: the group 0xBE 0xEF with checksum 0x92 and its top bit flipped
\* (0x12) was rejected.
C9_Witness ==
    /\ cout.dec = "u16"
    /\ cbuf = <<190, 239, 18>>
    /\ cout.rsp.tag = "Err"

\* C10 as stated: in a decoded message every field whose wire word is
\* 0xFFFF is absent.
C10_AllOnesAbsentEverywhere ==
    (Decoded /\ cout.rsp.tag = "Ok") =>
        \A f \in Fields(cout.dec) :
            WireWord(cout.dec, cbuf, f) = <<255, 255>> => ~cout.rsp.val[f].some

\* C10, amended: in a decoded message an unsigned field whose wire word is
\* 0xFFFF is absent, and a signed field whose wire word is 0xFFFF is present
\* with the value -1.
C10_AllOnesAbsentWhenUnsigned ==
    (Decoded /\ cout.rsp.tag = "Ok") =>
        /\ \A f \in UnsignedFields(cout.dec) :
               WireWord(cout.dec, cbuf, f) = <<255, 255>> => ~cout.rsp.val[f].some
        /\ \A f \in SignedFields(cout.dec) :
               WireWord(cout.dec, cbuf, f) = <<255, 255>>
               => (cout.rsp.val[f].some /\ cout.rsp.val[f].val = -1)

\* C10's case: a measurement buffer of eight 0xFFFF words decoded with PM1.0
\* absent and the humidity present as -1.
C10_Witness ==
    /\ cout.dec = "Measurements"
    /\ cbuf = Fill(8, 255, 255)
    /\ cout.rsp.tag = "Ok"
    /\ ~cout.rsp.val.pm1_0.some
    /\ cout.rsp.val.rh.some /\ cout.rsp.val.rh.val = -1

\* The integer the two bytes w stand for, most significant byte first:
\* unsigned, or two's complement.
UnsignedValue(w) == w[1] * 256 + w[2]
SignedValue(w) == IF w[1] >= 128 THEN UnsignedValue(w) - 65536 ELSE UnsignedValue(w)

\* C11: in a decoded message, the field at each offset of the documented
\* layout is absent exactly when its wire word is 0xFFFF (unsigned field) or
\* 0x7FFF (signed field), and is otherwise present with the big-endian
\* integer of the word, unsigned or two's complement by the field's type.
C11_FieldValues ==
    (Decoded /\ cout.rsp.tag = "Ok") =>
        /\ \A f \in UnsignedFields(cout.dec) :
               LET w == WireWord(cout.dec, cbuf, f) IN
               IF w = <<255, 255>>
               THEN ~cout.rsp.val[f].some
               ELSE cout.rsp.val[f].some /\ cout.rsp.val[f].val = UnsignedValue(w)
        /\ \A f \in SignedFields(cout.dec) :
               LET w == WireWord(cout.dec, cbuf, f) IN
               IF w = <<127, 255>>
               THEN ~cout.rsp.val[f].some
               ELSE cout.rsp.val[f].some /\ cout.rsp.val[f].val = SignedValue(w)

\* C11's case: a measurement buffer with a different word in every group,
\* decoded with PM2.5 = 0x4AEF and a negative humidity.
C11_Witness ==
    /\ cout.dec = "Measurements"
    /\ cbuf = Wire([i \in 1..8 |-> <<(37 * i) % 256, (237 + i) % 256>>], 1, {}, 0)
    /\ cout.rsp.tag = "Ok"
    /\ cout.rsp.val.pm2_5.some /\ cout.rsp.val.pm2_5.val = 19183
    /\ cout.rsp.val.rh.some /\ cout.rsp.val.rh.val = (185 * 256 + 242) - 65536

(***************************************************************************)
(* Properties of data_ready's decoding, checked under SpecReady.            *)
(***************************************************************************)
ChecksumOk(b) == crc8(<<b[1], b[2]>>) = b[3]

\* C12: data_ready returns Ok(true) exactly for [0x00, 0x01, crc] and
\* Ok(false) exactly for [0x00, 0x00, crc]; a buffer with a valid checksum
\* whose first byte is nonzero or whose second byte is neither 0 nor 1 gives
\* a malformed-message decode error; a checksum mismatch gives a checksum
\* decode error whatever the two data bytes are.
C12_DataReady ==
    cout.dec = "data_ready" =>
        /\ cout.rsp = Ok(TRUE) <=> cbuf = <<0, 1, crc8(<<0, 1>>)>>
        /\ cout.rsp = Ok(FALSE) <=> cbuf = <<0, 0, crc8(<<0, 0>>)>>
        /\ (ChecksumOk(cbuf) /\ (cbuf[1] /= 0 \/ cbuf[2] \notin {0, 1}))
               => cout.rsp = Decode(Msg)
        /\ ~ChecksumOk(cbuf) => cout.rsp = Decode(Crc)

\* C12's case: a buffer with a valid checksum and second byte 2 was decoded.
C12_Witness ==
    /\ cout.dec = "data_ready"
    /\ cbuf = <<0, 2, crc8(<<0, 2>>)>>
    /\ cout.rsp = Decode(Msg)

(***************************************************************************)
(* Properties of RawString::decode, checked under SpecString.               *)
(***************************************************************************)
\* Data byte i (from 0) of the 15 whole groups of b, and whether group g
\* (from 0) carries the checksum of its two data bytes.
DataByte(b, i) == b[3 * (i \div 2) + (i % 2) + 1]
GroupOk(b, g) == crc8(<<b[3 * g + 1], b[3 * g + 2]>>) = b[3 * g + 3]

Min(S) == CHOOSE x \in S : \A y \in S : x <= y

\* The positions of the NUL data bytes in the whole groups, the groups up to
\* the terminating one whose checksum does not match, and the positions of
\* the non-ASCII data bytes before the terminator.
Nuls(b) == { i \in 0..29 : DataByte(b, i) = 0 }
Terminated(b) == Nuls(b) /= {}
BadBefore(b) == { g \in 0..(Min(Nuls(b)) \div 2) : ~GroupOk(b, g) }
NonAsciiBefore(b) == { i \in 0..(Min(Nuls(b)) - 1) : DataByte(b, i) >= 128 }
Preceding(b) == [i \in 1..Min(Nuls(b)) |-> DataByte(b, i - 1)]

\* Whether the first defect of b, walking the groups in order and checking a
\* group's checksum before its data bytes, is a checksum mismatch.
CrcFirst(b) ==
    /\ BadBefore(b) /= {}
    /\ NonAsciiBefore(b) /= {} => Min(BadBefore(b)) <= Min(NonAsciiBefore(b)) \div 2

\* C13: with a NUL data byte in a whole group, the decoder returns exactly
\* the data bytes before the first NUL when every group up to and including
\* the terminating one validates and no byte before the NUL is non-ASCII;
\* groups after the terminating one are neither validated nor collected; a
\* checksum mismatch in a group up to the terminating one gives a checksum
\* error and a non-ASCII byte before the terminator a malformed-message
\* error, the first defect in group order deciding when a buffer has both.
C13_FirstDefectReported ==
    (cout.dec = "RawString" /\ Terminated(cbuf)) =>
        IF BadBefore(cbuf) = {} /\ NonAsciiBefore(cbuf) = {}
        THEN cout.rsp = Ok(Preceding(cbuf))
        ELSE IF CrcFirst(cbuf) THEN cout.rsp = DecodeErr(Crc)
        ELSE cout.rsp = DecodeErr(Msg)

\* C13's case: a string of 5 letters decoded from a buffer whose groups after
\* the terminating one hold a wrong checksum and non-ASCII bytes.
C13_Witness ==
    /\ cout.dec = "RawString"
    /\ cbuf = StringBuf(5, -1, 200, 4, <<0, 0>>)
    /\ cout.rsp = Ok(<<65, 66, 67, 68, 69>>)

\* C14 as claimed: no decoder panics on a buffer of its declared length, and
\* a decoded string is never longer than 32 bytes.
C14_DecodeNeverPanics ==
    cout.dec = "RawString" =>
        /\ cout.rsp.tag /= "Panic"
        /\ cout.rsp.tag = "Ok" => Len(cout.rsp.val) <= RawStringLEN

(***************************************************************************)
(* Properties of polling and of the warm start parameter, checked under     *)
(* Spec and SpecWarm.                                                       *)
(***************************************************************************)
\* The step is a bus read that completed with a buffer, now in buf'.
ReadCompleted == pc = "read" /\ Len(trace') = Len(trace) + 2

\* The step is a bus write of the bytes `bytes`.
Wrote(bytes) ==
    /\ pc = "write"
    /\ Len(trace') = Len(trace) + 1
    /\ Last(trace').kind = "write"
    /\ Last(trace').bytes = bytes

\* The writes of the bytes `bytes` in trace t.
WritesOf(t, bytes) == { i \in DOMAIN t : t[i].kind = "write" /\ t[i].bytes = bytes }

\* C15: wait_for_data writes only data-ready queries (0x0202); it returns Ok
\* only directly after a poll that decoded to true; after a poll that decoded
\* to false it waits the 20 ms interval and only then polls again; a poll
\* that fails ends the call with that error, and nothing is written after a
\* call has returned.
C15_WaitForDataPolls ==
    [][ op' = "wait_for_data" =>
          /\ \A i \in DOMAIN trace' : trace'[i].kind = "write" => trace'[i].bytes = <<2, 2>>
          /\ (pc' = "idle" /\ ret'.tag = "Ok") =>
                 /\ ReadCompleted
                 /\ Last(trace') = DecodeEv("ReadDataReady")
                 /\ DataReadyDecode(buf') = Ok(TRUE)
          /\ (op = "wait_for_data" /\ ReadCompleted) =>
                 LET r == DataReadyDecode(buf') IN
                 /\ r = Ok(TRUE) => (pc' = "idle" /\ ret' = Ok(Unit))
                 /\ r = Ok(FALSE) => (pc' = "interval" /\ ret' = Pending)
                 /\ r.tag = "Err" => (pc' = "idle" /\ ret' = Decode(r.err))
          /\ (op = "wait_for_data" /\ pc = "interval" /\ pc' /= "idle") =>
                 /\ trace' = Append(trace, DelayEv(20))
                 /\ pc' = "write" /\ cmd' = "ReadDataReady"
          /\ (op = "wait_for_data" /\ Wrote(<<2, 2>>) /\ trace /= <<>>) =>
                 /\ Last(trace) = DelayEv(20)
                 /\ trace[Len(trace) - 1] = DecodeEv("ReadDataReady")
                 /\ DataReadyDecode(buf) = Ok(FALSE)
          /\ \A i \in 1..(Len(trace') - 1) :
                 trace'[i].kind \in {"write", "read"} => trace'[i].res = "ok"
          /\ (op = "wait_for_data" /\ pc = "idle") => trace' = <<>>
      ]_vars

\* C15's case: a wait_for_data that returned Ok at its second poll, after
\* the interval.
C15_Witness ==
    /\ op = "wait_for_data" /\ pc = "idle" /\ ret = Ok(Unit)
    /\ Polls(trace) = 2
    /\ trace[5] = DelayEv(20)

\* C16: in measure the read-measurement command (0x03C4) is written only
\* directly after a data-ready poll of the same call that decoded to true,
\* at most once, and exactly once in a call that returns a measurement; a
\* call refused by the guard writes nothing, and a failed poll ends the call.
C16_MeasureWaitsThenReads ==
    [][ op' = "measure" =>
          LET W == WritesOf(trace', <<3, 196>>) IN
          /\ Cardinality(W) <= 1
          /\ \A i \in W :
                 /\ i > 1 /\ trace'[i - 1] = DecodeEv("ReadDataReady")
                 /\ \A j \in 1..(i - 1) :
                        trace'[j].kind \in {"write", "read"} => trace'[j].res = "ok"
          /\ (op = "measure" /\ Wrote(<<3, 196>>)) =>
                 /\ trace /= <<>> /\ Last(trace) = DecodeEv("ReadDataReady")
                 /\ DataReadyDecode(buf) = Ok(TRUE)
          /\ (op = "measure" /\ ReadCompleted /\ cmd = "ReadDataReady"
                /\ DataReadyDecode(buf') /= Ok(TRUE)) =>
                 /\ cmd' = "ReadDataReady"
                 /\ DataReadyDecode(buf').tag = "Err" => pc' = "idle"
          /\ (pc' = "idle" /\ ret'.tag = "Ok") =>
                 /\ Cardinality(W) = 1
                 /\ Last(trace') = DecodeEv("ReadMeasurement")
          /\ (pc' = "idle" /\ ret'.tag = "WrongMode") => trace' = <<>>
          /\ (op = "measure" /\ pc = "idle") => trace' = <<>>
      ]_vars

\* C16's case: a measure that returned a measurement after two polls.
C16_Witness ==
    /\ op = "measure" /\ pc = "idle" /\ ret.tag = "Ok"
    /\ Polls(trace) = 2
    /\ Cardinality(WritesOf(trace, <<3, 196>>)) = 1

\* The 5 bytes of the request that sets the warm start parameter to v.
WarmFrame(v) == <<96, 198, v \div 256, v % 256, crc8(<<v \div 256, v % 256>>)>>

\* C17: set_warm_start_parameter(v) called in Idle is not refused; its first
\* bus action is one write of the 5 bytes 0x60, 0xC6, v big-endian and the
\* checksum of v's two bytes; after a successful write it waits 20 ms and
\* returns; it writes once and reads nothing.
C17_WarmStartRequest ==
    (op = "set_warm_start_parameter" /\ mode0 = "Idle") =>
        /\ ret.tag /= "WrongMode"
        /\ \A i \in DOMAIN trace : trace[i].kind \in {"write", "delay"}
        /\ Cardinality({i \in DOMAIN trace : trace[i].kind = "write"}) <= 1
        /\ trace /= <<>> =>
               /\ trace[1].kind = "write" /\ trace[1].addr = 105
               /\ trace[1].bytes = WarmFrame(arg)
               /\ Len(trace[1].bytes) = 5
        /\ Len(trace) > 1 => (trace[1].res = "ok" /\ trace[2] = DelayEv(20) /\ Len(trace) = 2)
        /\ (pc = "idle" /\ ret.tag = "Ok") => Len(trace) = 2
        /\ (pc = "idle" /\ ret.tag = "I2cWrite") => Len(trace) = 1

\* C17's case: set_warm_start_parameter(0x1234) has returned Ok.
C17_Witness ==
    /\ op = "set_warm_start_parameter" /\ arg = 4660 /\ mode0 = "Idle"
    /\ pc = "idle" /\ ret = Ok(Unit)
    /\ trace = <<WriteEv(<<96, 198, 18, 52, 55>>, "ok"), DelayEv(20)>>

WholeChecksumOk(b) == b[Len(b)] = crc8(SubSeq(b, 1, Len(b) - 1))

\* The (major, minor) pairs of the decoded version information v.
VersionPairs(v) ==
    { f \in DOMAIN v \ {"firmware_debug"} : v[f] \in [major : Byte, minor : Byte] }

TableRows ==
    { [opcode |-> <<2, 2>>,    ms |-> {20},   len |-> 3],
      [opcode |-> <<3, 196>>,  ms |-> 20..50, len |-> 24],
      [opcode |-> <<3, 210>>,  ms |-> {20},   len |-> 12],
      [opcode |-> <<208, 20>>, ms |-> {20},   len |-> 47],
      [opcode |-> <<208, 51>>, ms |-> {20},   len |-> 47],
      [opcode |-> <<96, 198>>, ms |-> {20},   len |-> 3],
      [opcode |-> <<0, 33>>,   ms |-> {50},   len |-> 0],
      [opcode |-> <<0, 55>>,   ms |-> {50},   len |-> 0],
      [opcode |-> <<1, 4>>,    ms |-> {200},  len |-> 0],
      [opcode |-> <<86, 7>>,   ms |-> {20},   len |-> 0],
      [opcode |-> <<211, 4>>,  ms |-> {100},  len |-> 0] }

Row(opcode) == CHOOSE r \in TableRows : r.opcode = opcode

\* The opcodes method o called with argument a may write.
TableOpcodes(o, a) ==
    CASE o = "data_ready" -> {<<2, 2>>}
      [] o = "wait_for_data" -> {<<2, 2>>}
      [] o = "measure" -> {<<2, 2>>, <<3, 196>>}
      [] o = "read_measurements" -> {<<3, 196>>}
      [] o = "read_raw_signals" -> {<<3, 210>>}
      [] o = "read_product_name" -> {<<208, 20>>}
      [] o = "read_warm_start_parameter" -> {<<96, 198>>}
      [] o = "set_warm_start_parameter" -> {<<96, 198>>}
      [] o = "start_measurement" -> IF a = "Enabled" THEN {<<0, 33>>} ELSE {<<0, 55>>}
      [] o = "stop_measurement" -> {<<1, 4>>}
      [] o = "start_fan_cleaning" -> {<<86, 7>>}
      [] o = "reset" -> {<<211, 4>>}
      [] OTHER -> {}

\* C19: every bus write of a method starts with an opcode of the table that
\* belongs to the method (0x0021 or 0x0037 by the argument of
\* start_measurement) and is 2 bytes long, 5 for set_warm_start_parameter;
\* the wait that follows a write is the opcode's settling time; a bus read
\* follows the write and the wait of a command with a response and reads the
\* response length of its opcode; the catalog's entry for the serial number,
\* which no method uses, is 0xD033, 20 ms, 47 bytes.
C19_CommandTable ==
    /\ \A i \in DOMAIN trace :
           /\ trace[i].kind = "write" =>
                  /\ SubSeq(trace[i].bytes, 1, 2) \in TableOpcodes(op, arg)
                  /\ Len(trace[i].bytes) = IF op = "set_warm_start_parameter" THEN 5 ELSE 2
                  /\ i < Len(trace) =>
                         /\ trace[i + 1].kind = "delay"
                         /\ trace[i + 1].ms \in Row(SubSeq(trace[i].bytes, 1, 2)).ms
           /\ trace[i].kind = "read" =>
                  /\ i > 2 /\ trace[i - 2].kind = "write"
                  /\ op /= "set_warm_start_parameter"
                  /\ trace[i].len = Row(SubSeq(trace[i - 2].bytes, 1, 2)).len
                  /\ trace[i].len > 0
           /\ trace[i].kind = "delay" =>
                  /\ i > 1
                  /\ trace[i - 1].kind \in {"write", "decode"}
                  /\ trace[i - 1].kind = "decode" => op \in {"wait_for_data", "measure"}
    /\ (pc = "idle" /\ ret.tag = "Ok") =>
           /\ trace /= <<>>
           /\ Last(trace).kind = IF Row(SubSeq(trace[1].bytes, 1, 2)).len > 0
                                      /\ op /= "set_warm_start_parameter"
                                 THEN "decode" ELSE "delay"
    /\ COMMAND("ReadSerialNumber") = <<208, 51>>
    /\ EXECUTION_MS("ReadSerialNumber") = 20
    /\ RSP_LEN("ReadSerialNumber") = 47

\* C19's case: start_measurement(Disabled) wrote 0x0037 and waited 50 ms.
C19_Witness ==
    /\ op = "start_measurement" /\ arg = "Disabled"
    /\ pc = "idle" /\ ret = Ok(Unit)
    /\ trace = <<WriteEv(<<0, 55>>, "ok"), DelayEv(50)>>

(***************************************************************************)
(* Properties of the driver's transactions, checked under Spec.             *)
(***************************************************************************)
\* A call is suspended at an await point.
Suspended == pc \in {"write", "delay", "read", "interval"}

\* Trace u is trace t with events added at its end.
Extends(u, t) == Len(u) >= Len(t) /\ SubSeq(u, 1, Len(t)) = t

C22_RunsToCompletion ==
    (pc = "idle" /\ trace /= <<>> /\ trace[1].kind = "write" /\ trace[1].res = "ok") =>
        /\ ret /= Dropped
        /\ op \in {"start_measurement", "stop_measurement", "reset"} =>
               /\ Len(trace) = 2 /\ trace[2] = DelayEv(EXECUTION_MS(cmd))
               /\ mode = IF op = "start_measurement" THEN "Measuring" ELSE "Idle"

\* The step is a start_measurement returning Ok.
StartReturnsOk ==
    /\ op = "start_measurement" /\ pc = "delay"
    /\ pc' = "idle" /\ ret' = Ok(Unit)

\* C23: the recorded particulate mode is Enabled in a new driver; a step
\* changes it only when a start_measurement returns Ok, to that call's
\* argument, so a failed start_measurement, stop_measurement, reset and every
\* other method leave it as it was; and it gates nothing: a call is refused
\* exactly when the mode is not the one the method requires, whatever the
\* recorded particulate mode is.
C23_ParticulatesRemembered ==
    /\ particulates = "Enabled"
    /\ [][ /\ particulates' = IF StartReturnsOk THEN arg ELSE particulates
           /\ (op' = "start_measurement" /\ pc' = "idle" /\ ret' = Ok(Unit))
                  => particulates' = arg'
           /\ pc = "idle" =>
                  (ret'.tag = "WrongMode" <=> ExpectedMode(op') \notin {"Any", mode})
       ]_vars

\* C23's case: a start_measurement(Enabled) whose bus write failed has left
\* the mode Disabled of an earlier start.
C23_Witness ==
    /\ op = "start_measurement" /\ arg = "Enabled"
    /\ pc = "idle" /\ ret.tag = "I2cWrite"
    /\ particulates = "Disabled"

\* C24 as claimed: after every completed call, in any sequence of calls, the
\* driver's mode is Measuring exactly when the device, which follows the
\* start (0x0021, 0x0037), stop (0x0104) and reset (0xD304) commands
\* delivered to it, is measuring.
C24_ModeAgreesWithDevice ==
    (pc = "idle" /\ ret.tag \in {"Ok"} \cup ErrorTags) =>
        (mode = "Measuring" <=> device = "Measuring")

(***************************************************************************)
(* Termination of polling, checked under SpecLive.                          *)
(***************************************************************************)
\* C25: with a bus and a delay that complete, and a device that does not
\* answer "not ready" for ever (at most MaxPolls times here), a running
\* wait_for_data or measure comes to its end: it returns, or its future is
\* dropped.
C25_WaitTerminates ==
    (op \in {"wait_for_data", "measure"} /\ pc /= "idle")
        ~> (pc = "idle" /\ ret /= Pending)

\* C25's case: a wait_for_data that returned Ok at the last poll the device
\* may answer, after "not ready" answers to all the polls before.
C25_Witness ==
    /\ op = "wait_for_data" /\ pc = "idle" /\ ret = Ok(Unit)
    /\ Polls(trace) = MaxPolls
    /\ DataReadyDecode(buf) = Ok(TRUE)

====
